---- MODULE Spec2Model ----
(***************************************************************************)
(* Model of src/solver.cpp: the batch driver (main), processFile, the      *)
(* recursive combination generator with its scoring of each size-k subset, *)
(* lagrange_evaluate and convertToBase10.                                  *)
(*                                                                         *)
(* BigInt values are TLA+ integers.  The x-coordinates are long long in    *)
(* the source; every x of the model is small, so no long long subtraction  *)
(* of lagrange_evaluate leaves the 64-bit range.                           *)
(***************************************************************************)
EXTENDS Integers, Sequences, FiniteSets

\* ------------------------------------------------------------------ bounds
\* most files on the command line (argc - 1)
MaxFiles == 2
\* most points in one input record
MaxN == 3
\* the keys (x-coordinates) of a generic record are 0..MaxX
MaxX == 2
\* the values of a generic record are the one-digit strings "0".."MaxY"
MaxY == 1
\* longest digit string handed to convertToBase10 on its own
MaxLen == 2
\* the integer polynomials of the exactness property have coefficients
\* in -MaxCoef..MaxCoef
MaxCoef == 2

VARIABLES
    argc,                  \* number of file arguments (argc - 1 of main)
    arg_i,                 \* main's loop variable i: the file being processed
    pc,                    \* position of the program
    uncaught,              \* the exception that ended the program, "" if none
    k,                     \* processFile: size_t k
    all_points,            \* processFile: all_points, a sequence of <<x, y>>
    best_fit,              \* <<best_inlier_count, final_answer>>, <<>> before line 107
    combination_indices,   \* processFile: combination_indices (0-based)
    loop_i,                \* generate_combinations: i of the innermost frame
    current_inlier_count,  \* base case: current_inlier_count
    subsets_built,         \* number of subsets built so far in this file
    eval_calls,            \* number of lagrange_evaluate calls in this file
    numStr,                \* convertToBase10: the digit string (character codes)
    base,                  \* convertToBase10: the base
    dec_pc,                \* convertToBase10 called on its own: "idle", "call", "returned"
    dec_result             \* convertToBase10: the value returned

vars == <<argc, arg_i, pc, uncaught, k, all_points, best_fit, combination_indices,
          loop_i, current_inlier_count, subsets_built, eval_calls,
          numStr, base, dec_pc, dec_result>>

fileVars == <<k, all_points, best_fit, combination_indices, loop_i,
              current_inlier_count, subsets_built, eval_calls>>

decVars == <<numStr, base, dec_pc, dec_result>>

\* ------------------------------------------------------------ small helpers
Abs(a) == IF a < 0 THEN -a ELSE a

Last(s) == s[Len(s)]

Front(s) == SubSeq(s, 1, Len(s) - 1)

\* BigInt operator/ : division truncating toward zero (b # 0)
BigIntDiv(a, b) ==
    IF (a < 0) = (b < 0) THEN Abs(a) \div Abs(b) ELSE -(Abs(a) \div Abs(b))

\* ------------------------------------------------------------ convertToBase10
\* character codes
Ch0 == 48
Ch9 == 57
ChA == 65
ChZ == 90
Cha == 97
Chz == 122

\* lines 24-31: the digit a character stands for; the else branch takes every
\* other character as an upper-case letter
DigitOf(c) ==
    IF c >= Ch0 /\ c <= Ch9 THEN c - Ch0
    ELSE IF c >= Cha /\ c <= Chz THEN c - Cha + 10
    ELSE c - ChA + 10

\* lines 23-34: the loop from position i (1-based) down to the first character
RECURSIVE ConvertLoop(_, _, _, _, _)
ConvertLoop(str, b, i, result, power) ==
    IF i < 1 THEN result
    ELSE ConvertLoop(str, b, i - 1, result + power * DigitOf(str[i]), power * b)

\* lines 18-36; the function has no throw statement, it always returns
ConvertToBase10(str, b) == ConvertLoop(str, b, Len(str), 0, 1)

\* ---------------------------------------------------------- lagrange_evaluate
\* line 57: the inner loop skips p_i when its x equals that of p_j
SkipPoint(p_i, p_j) == p_i[1] = p_j[1]

\* lines 54-60: num after the inner loop over points[1..m]
RECURSIVE BasisNum(_, _, _, _)
BasisNum(points, j, x, m) ==
    IF m = 0 THEN points[j][2]
    ELSE IF SkipPoint(points[m], points[j]) THEN BasisNum(points, j, x, m - 1)
    ELSE BasisNum(points, j, x, m - 1) * (x - points[m][1])

\* lines 55-60: den after the inner loop over points[1..m]
RECURSIVE BasisDen(_, _, _)
BasisDen(points, j, m) ==
    IF m = 0 THEN 1
    ELSE IF SkipPoint(points[m], points[j]) THEN BasisDen(points, j, m - 1)
    ELSE BasisDen(points, j, m - 1) * (points[j][1] - points[m][1])

\* a mutant of AccumulateTerm: the running numerator is not scaled by den
AccumulateTerm_NoScale(acc, num, den) ==
    <<acc[1] + num * acc[2], acc[2] * den>>

\* lines 61-62: <<final_numerator, common_denominator>> after one more term
AccumulateTerm(acc, num, den) ==
    <<acc[1] * den + num * acc[2], acc[2] * den>>

\* lines 50-63: <<final_numerator, common_denominator>> after points[1..m]
RECURSIVE LagrangeFraction(_, _, _)
LagrangeFraction(points, x, m) ==
    IF m = 0 THEN <<0, 1>>
    ELSE AccumulateTerm(LagrangeFraction(points, x, m - 1),
                        BasisNum(points, m, x, Len(points)),
                        BasisDen(points, m, Len(points)))

\* line 65: the condition of the throw
LagrangeThrows(points, x) == LagrangeFraction(points, x, Len(points))[2] = 0

\* line 69: the value returned when nothing is thrown
LagrangeEvaluate(points, x) ==
    LET f == LagrangeFraction(points, x, Len(points))
    IN  BigIntDiv(f[1], f[2])

\* ------------------------------------------------- generate_combinations
\* lines 117-120: the subset named by 0-based indices into the point vector
SubsetOf(indices, points) ==
    [j \in 1..Len(indices) |-> points[indices[j] + 1]]

\* line 125: whether point p counts as an inlier of the subset's polynomial
IsInlier(subset, p) == LagrangeEvaluate(subset, p[1]) = p[2]

\* a mutant of CountInliers: the loop over all points misses the first one
CountInliers_SkipFirst(subset, points) ==
    Cardinality({j \in 2..Len(points) : IsInlier(subset, points[j])})

\* lines 123-128: current_inlier_count after the loop over all points
CountInliers(subset, points) ==
    Cardinality({j \in 1..Len(points) : IsInlier(subset, points[j])})

\* a mutant of IsBetterFit: a tie replaces the best result as well
IsBetterFit_OrEqual(current, best) == current >= best

\* line 131: the condition under which the best result is replaced
IsBetterFit(current, best) == current > best

\* line 139: the loop condition i <= n - count_needed; count_needed <= k <= n
\* wherever the loop runs, so the unsigned subtraction does not wrap
LoopCond(i, nn, cn) == i <= nn - cn

\* a mutant of NotEnoughPoints: the threshold test is off by one
NotEnoughPoints_OffByOne(nn, kk) == nn + 1 < kk

\* line 101: the threshold test of processFile
NotEnoughPoints(nn, kk) == nn < kk

\* the names of the source for the two halves of best_fit
best_inlier_count == best_fit[1]

final_answer == best_fit[2]

\* count_needed of the innermost frame of generate_combinations
count_needed == k - Len(combination_indices)

n == Len(all_points)

\* the subset the innermost frame works on
CurrentSubset == SubsetOf(combination_indices, all_points)

\* the locals of processFile, gone when it returns
NoFile ==
    /\ k = 0
    /\ all_points = <<>>
    /\ best_fit = <<>>
    /\ combination_indices = <<>>
    /\ loop_i = 0
    /\ current_inlier_count = 0
    /\ subsets_built = 0
    /\ eval_calls = 0

NoFileNext ==
    /\ k' = 0
    /\ all_points' = <<>>
    /\ best_fit' = <<>>
    /\ combination_indices' = <<>>
    /\ loop_i' = 0
    /\ current_inlier_count' = 0
    /\ subsets_built' = 0
    /\ eval_calls' = 0

\* a return of generate_combinations: to its caller's loop (lines 142, 139:
\* pop_back, ++i) or, from the outermost frame, to processFile (line 149)
ReturnFromFrame ==
    IF combination_indices = <<>>
    THEN /\ pc' = "report"
         /\ UNCHANGED <<combination_indices, loop_i>>
    ELSE /\ pc' = "gen"
         /\ combination_indices' = Front(combination_indices)
         /\ loop_i' = Last(combination_indices) + 1

\* ------------------------------------------------------------------- inputs
\* One entry of an input record: key x, digit string value, base.  The JSON
\* object is iterated in the order of its keys; the generic records use keys
\* whose order is that of x, two keys of the same x ("1" and "01") allowed.
GenericEntries ==
    UNION {{e \in [1..len -> (0..MaxX) \X (0..MaxY)] :
                \A j \in 1..(len - 1) : e[j][1] <= e[j + 1][1]} : len \in 0..MaxN}

EntryOf(xy) == [x |-> xy[1], value |-> <<Ch0 + xy[2]>>, base |-> 10]

\* the decimal digit string of v >= 0
RECURSIVE Decimal(_)
Decimal(v) ==
    IF v < 10 THEN <<Ch0 + v>> ELSE Append(Decimal(v \div 10), Ch0 + (v % 10))

\* the corrupted fourth value of the scenario record
ScenarioCs == (14..22) \cup {100}

\* the scenario record: keys 1, 2, 3, 4 with values 3, 6, 11, c in base 10
ScenarioEntries(c) ==
    [j \in 1..4 |-> [x |-> j, value |-> Decimal(<<3, 6, 11, c>>[j]), base |-> 10]]

\* ------------------------------------------------------------------ actions
\* main is started with no file argument or with MaxFiles of them
Init ==
    /\ argc \in {0, MaxFiles}
    /\ arg_i = 1
    /\ pc = "main"
    /\ uncaught = ""
    /\ NoFile
    /\ numStr = <<>>
    /\ base = 10
    /\ dec_pc = "idle"
    /\ dec_result = 0

\* main, lines 156-159: no file argument
Usage ==
    /\ pc = "main"
    /\ argc = 0
    /\ pc' = "usage"
    /\ UNCHANGED <<argc, arg_i, uncaught, fileVars, decVars>>

\* main, lines 161-165: the loop is over
Exit ==
    /\ pc = "main"
    /\ argc >= 1
    /\ arg_i > argc
    /\ pc' = "exit"
    /\ UNCHANGED <<argc, arg_i, uncaught, fileVars, decVars>>

AtProcessFile ==
    /\ pc = "main"
    /\ argc >= 1
    /\ arg_i <= argc

\* processFile, lines 79-81: the file cannot be opened
OpenError ==
    /\ AtProcessFile
    /\ pc' = "open_error"
    /\ UNCHANGED <<argc, arg_i, uncaught, fileVars, decVars>>

\* processFile, lines 84-88: json::parse_error is caught
ParseError ==
    /\ AtProcessFile
    /\ pc' = "parse_error"
    /\ UNCHANGED <<argc, arg_i, uncaught, fileVars, decVars>>

\* processFile, line 93: no number at keys.k; the json type_error is caught
\* nowhere, neither in processFile nor in main
MissingThreshold ==
    /\ AtProcessFile
    /\ pc' = "terminated"
    /\ uncaught' = "json::type_error"
    /\ UNCHANGED <<argc, arg_i, fileVars, decVars>>

\* processFile, line 97: std::stoll or std::stoi throws on a key or base that
\* is no number; the exception is caught nowhere
BadNumber ==
    /\ AtProcessFile
    /\ pc' = "terminated"
    /\ uncaught' = "std::invalid_argument"
    /\ UNCHANGED <<argc, arg_i, fileVars, decVars>>

\* processFile, lines 93-109 and 146-147 on a record that parses
LoadRecord(kk, entries) ==
    /\ AtProcessFile
    /\ k' = kk
    /\ all_points' = [j \in 1..Len(entries) |->
                        <<entries[j].x,
                          ConvertToBase10(entries[j].value, entries[j].base)>>]
    /\ IF NotEnoughPoints(Len(entries), kk)
       THEN /\ pc' = "insufficient"
            /\ best_fit' = <<>>
       ELSE /\ pc' = "gen"
            /\ best_fit' = <<-1, 0>>
    /\ combination_indices' = <<>>
    /\ loop_i' = 0
    /\ UNCHANGED <<argc, arg_i, uncaught, current_inlier_count, subsets_built,
                   eval_calls, decVars>>

ReadRecord ==
    /\ AtProcessFile
    /\ \E kk \in 0..(MaxN + 1), e \in GenericEntries :
          LoadRecord(kk, [j \in 1..Len(e) |-> EntryOf(e[j])])

ReadScenario ==
    /\ AtProcessFile
    /\ \E c \in ScenarioCs : LoadRecord(3, ScenarioEntries(c))

\* processFile, lines 82, 89 and 103: return after the error message
ReturnEarly ==
    /\ pc \in {"open_error", "parse_error", "insufficient"}
    /\ pc' = "main"
    /\ arg_i' = arg_i + 1
    /\ NoFileNext
    /\ UNCHANGED <<argc, uncaught, decVars>>

\* generate_combinations, lines 139-141: one more index, one more frame
LoopStep ==
    /\ pc = "gen"
    /\ count_needed > 0
    /\ LoopCond(loop_i, n, count_needed)
    /\ combination_indices' = Append(combination_indices, loop_i)
    /\ loop_i' = loop_i + 1
    /\ UNCHANGED <<argc, arg_i, pc, uncaught, k, all_points, best_fit,
                   current_inlier_count, subsets_built, eval_calls, decVars>>

\* generate_combinations, lines 139 and 144: the loop of a frame is over
LoopExit ==
    /\ pc = "gen"
    /\ count_needed > 0
    /\ ~LoopCond(loop_i, n, count_needed)
    /\ ReturnFromFrame
    /\ UNCHANGED <<argc, arg_i, uncaught, k, all_points, best_fit,
                   current_inlier_count, subsets_built, eval_calls, decVars>>

\* generate_combinations, lines 116-128: the subset is built and scored; a
\* throw of lagrange_evaluate is caught nowhere
BuildAndScore ==
    /\ pc = "gen"
    /\ count_needed = 0
    /\ subsets_built' = subsets_built + 1
    /\ IF n > 0 /\ LagrangeThrows(CurrentSubset, all_points[1][1])
       THEN /\ pc' = "terminated"
            /\ uncaught' = "std::runtime_error"
            /\ eval_calls' = eval_calls + 1
            /\ UNCHANGED current_inlier_count
       ELSE /\ pc' = "scored"
            /\ uncaught' = uncaught
            /\ eval_calls' = eval_calls + n
            /\ current_inlier_count' = CountInliers(CurrentSubset, all_points)
    /\ UNCHANGED <<argc, arg_i, k, all_points, best_fit,
                   combination_indices, loop_i, decVars>>

\* generate_combinations, lines 130-135: the best result is replaced or kept,
\* and the frame returns
UpdateBest ==
    /\ pc = "scored"
    /\ IF IsBetterFit(current_inlier_count, best_inlier_count)
       THEN /\ best_fit' = <<current_inlier_count, LagrangeEvaluate(CurrentSubset, 0)>>
            /\ eval_calls' = eval_calls + 1
       ELSE UNCHANGED <<best_fit, eval_calls>>
    /\ current_inlier_count' = 0
    /\ ReturnFromFrame
    /\ UNCHANGED <<argc, arg_i, uncaught, k, all_points, subsets_built, decVars>>

\* processFile, lines 149-153: the result is printed and processFile returns
Report ==
    /\ pc = "report"
    /\ pc' = "main"
    /\ arg_i' = arg_i + 1
    /\ NoFileNext
    /\ UNCHANGED <<argc, uncaught, decVars>>

Next ==
    \/ Usage
    \/ Exit
    \/ OpenError
    \/ ParseError
    \/ MissingThreshold
    \/ BadNumber
    \/ ReadRecord
    \/ ReturnEarly
    \/ LoopStep
    \/ LoopExit
    \/ BuildAndScore
    \/ UpdateBest
    \/ Report

Spec == Init /\ [][Next]_vars

\* ------------------------------------------------ one file, any record
\* main is started on one file
InitOneFile ==
    /\ argc = 1
    /\ arg_i = 1
    /\ pc = "main"
    /\ uncaught = ""
    /\ NoFile
    /\ numStr = <<>>
    /\ base = 10
    /\ dec_pc = "idle"
    /\ dec_result = 0

\* the file holds a record that parses
NextSearch ==
    \/ ReadRecord
    \/ ReturnEarly
    \/ LoopStep
    \/ LoopExit
    \/ BuildAndScore
    \/ UpdateBest
    \/ Report
    \/ Exit

SpecSearch == InitOneFile /\ [][NextSearch]_vars

\* ---------------------------------------------------- the scenario record
\* the file holds the scenario record
NextScenario ==
    \/ ReadScenario
    \/ LoopStep
    \/ LoopExit
    \/ BuildAndScore
    \/ UpdateBest
    \/ Report
    \/ Exit

SpecScenario == InitOneFile /\ [][NextScenario]_vars

\* ------------------------------- records sampled from integer polynomials
\* the value at x of the polynomial with coefficients a[0], ..., a[deg]
RECURSIVE PolyValue(_, _, _)
PolyValue(a, x, deg) ==
    IF deg = 0 THEN a[0] ELSE a[deg] + x * PolyValue(a, x, deg - 1)

\* strictly increasing sequences of len keys out of 0..MaxX
DistinctKeys(len) ==
    {xs \in [1..len -> 0..MaxX] : \A j \in 1..(len - 1) : xs[j] < xs[j + 1]}

\* the record of the len points at keys xs of the polynomial a; the values are
\* written in base 10
SampledEntries(a, xs) ==
    [j \in 1..Len(xs) |->
        [x |-> xs[j], value |-> Decimal(PolyValue(a, xs[j], Len(xs) - 1)), base |-> 10]]

\* a record of n = k points sampled from a polynomial of degree < k with
\* integer coefficients; a digit string holds no sign, so the sampled values
\* are not negative
ReadSampled ==
    /\ AtProcessFile
    /\ \E kk \in 1..MaxN :
         \E a \in [0..(kk - 1) -> (-MaxCoef)..MaxCoef], xs \in DistinctKeys(kk) :
            /\ \A j \in 1..kk : PolyValue(a, xs[j], kk - 1) >= 0
            /\ LoadRecord(kk, SampledEntries(a, xs))

NextExact ==
    \/ ReadSampled
    \/ LoopStep
    \/ LoopExit
    \/ BuildAndScore
    \/ UpdateBest
    \/ Report
    \/ Exit

SpecExact == InitOneFile /\ [][NextExact]_vars

\* ------------------------------------------- convertToBase10 on its own
\* characters handed to convertToBase10: digits, letters of both cases and
\* two characters that are neither ('!' and '{')
DecChars == {Ch0, Ch0 + 1, Ch9, Cha, Chz, ChA, ChZ, 33, 123}

DecBases == {2, 10, 16, 36}

DecStrings == UNION {[1..len -> DecChars] : len \in 0..MaxLen}

InitDecode ==
    /\ numStr \in DecStrings
    /\ base \in DecBases
    /\ dec_pc = "call"
    /\ dec_result = 0
    /\ argc = 0
    /\ arg_i = 1
    /\ pc = "decode"
    /\ uncaught = ""
    /\ NoFile

\* a call of convertToBase10, lines 18-36: it returns a value on every input
Convert ==
    /\ dec_pc = "call"
    /\ dec_result' = ConvertToBase10(numStr, base)
    /\ dec_pc' = "returned"
    /\ UNCHANGED <<argc, arg_i, pc, uncaught, fileVars, numStr, base>>

NextDecode == Convert

SpecDecode == InitDecode /\ [][NextDecode]_vars

\* ------------------------------------------------- notions of the claims
Min(S) == CHOOSE m \in S : \A o \in S : m <= o

Max(S) == CHOOSE m \in S : \A o \in S : m >= o

RECURSIVE SortedSeq(_)
SortedSeq(S) == IF S = {} THEN <<>> ELSE <<Min(S)>> \o SortedSeq(S \ {Min(S)})

\* the size-kk subsets of nn points, each as its increasing sequence of
\* 0-based indices
Combos(nn, kk) ==
    {SortedSeq(S) : S \in {T \in SUBSET (0..(nn - 1)) : Cardinality(T) = kk}}

\* lexicographic order on index sequences of the same length
LexLess(c, d) ==
    \E j \in 1..Len(c) : c[j] < d[j] /\ \A i \in 1..(j - 1) : c[i] = d[i]

AllCombos == Combos(n, k)

EarlierCombos == {d \in AllCombos : LexLess(d, combination_indices)}

\* the inlier count and the constant term the program computes for a subset
ScoreOf(c) == CountInliers(SubsetOf(c, all_points), all_points)

ConstantOf(c) == LagrangeEvaluate(SubsetOf(c, all_points), 0)

\* <<best_inlier_count, final_answer>> as the tie-break rule fixes them for
\* the subsets S: the largest count, and the constant term of the
\* lexicographically first subset that has it
FirstBest(S) ==
    IF S = {} THEN <<-1, 0>>
    ELSE LET mx == Max({ScoreOf(c) : c \in S})
             best == {c \in S : ScoreOf(c) = mx}
             first == CHOOSE c \in best : \A d \in best : d = c \/ LexLess(c, d)
         IN  <<mx, ConstantOf(first)>>

DistinctX(points) ==
    \A i, j \in 1..Len(points) : i # j => points[i][1] # points[j][1]

\* the exact (rational) value at p's x of the polynomial through the subset
\* is final_numerator / common_denominator; it equals p's y exactly when
ExactInlier(subset, p) ==
    LET f == LagrangeFraction(subset, p[1], Len(subset))
    IN  f[1] = p[2] * f[2]

ExactCount(subset, points) ==
    Cardinality({j \in 1..Len(points) : ExactInlier(subset, points[j])})

ExactScoreOf(c) == ExactCount(SubsetOf(c, all_points), all_points)

\* whether v is the exact value at x = 0 of the polynomial through subset c
ExactConstantIs(c, v) ==
    LET f == LagrangeFraction(SubsetOf(c, all_points), 0, Len(c))
    IN  f[1] = v * f[2]

\* two points of the subset with the same x and different y
HasConflictingPair(subset) ==
    \E i, j \in 1..Len(subset) :
        subset[i][1] = subset[j][1] /\ subset[i][2] # subset[j][2]

FourthInSubset == \E j \in 1..Len(combination_indices) : combination_indices[j] = 3

ScenarioC == all_points[4][2]

IsDigitChar(c) ==
    \/ (c >= Ch0 /\ c <= Ch9)
    \/ (c >= Cha /\ c <= Chz)
    \/ (c >= ChA /\ c <= ChZ)

ValidDigits(str, b) ==
    \A j \in 1..Len(str) : IsDigitChar(str[j]) /\ DigitOf(str[j]) < b

\* ------------------------------------------------------------------ claims
\* C1: for distinct x and n >= k >= 1, the reported inlier count is the
\* largest number of points any size-k subset's interpolating polynomial
\* reproduces exactly, and the reported constant term is the exact value at
\* x = 0 of the polynomial of a subset that reaches this number.
C1_BestFitIsExactMaximum ==
    (pc = "report" /\ k >= 1 /\ DistinctX(all_points)) =>
        LET mx == Max({ExactScoreOf(c) : c \in AllCombos})
        IN  /\ best_inlier_count = mx
            /\ \E c \in AllCombos :
                  ExactScoreOf(c) = mx /\ ExactConstantIs(c, final_answer)

\* C2: the inlier count of a scored subset is the number of points whose y is
\* the exact value of the subset's polynomial at their x.
C2_CountIsExact ==
    (pc = "scored" /\ DistinctX(all_points)) =>
        current_inlier_count = ExactCount(CurrentSubset, all_points)

\* C3: subsets are scored in lexicographic order, each once, the best result
\* is replaced only by a strictly greater count, and so the reported pair is
\* the largest count with the constant term of the lexicographically first
\* subset that has it.
C3_TieBreak ==
    /\ pc = "scored" =>
          /\ combination_indices \in AllCombos
          /\ subsets_built = Cardinality(EarlierCombos) + 1
          /\ best_fit = FirstBest(EarlierCombos)
    /\ pc = "report" =>
          /\ subsets_built = Cardinality(AllCombos)
          /\ best_fit = FirstBest(AllCombos)

\* C3 witness: the search is over on points of distinct x with k >= 2, two
\* subsets tie at the largest count with different constant terms, and the
\* first one's is reported.
C3_Witness ==
    /\ pc = "report"
    /\ k >= 2
    /\ DistinctX(all_points)
    /\ \E c, d \in AllCombos :
          /\ LexLess(c, d)
          /\ ScoreOf(c) = best_inlier_count
          /\ ScoreOf(d) = best_inlier_count
          /\ ConstantOf(c) # ConstantOf(d)
          /\ final_answer = ConstantOf(c)

\* C4: a subset that holds two points of equal x and different y is never
\* scored: scoring it raises the division-by-zero error instead of producing
\* an inlier count.
C4_ConflictingPairThrows ==
    pc = "scored" => ~HasConflictingPair(CurrentSubset)

\* C5: with n < k the instance is reported as short of points and the search
\* never starts: no subset is built, no evaluator call is made, no best
\* result exists.
C5_InsufficientPoints ==
    n < k =>
        /\ pc = "insufficient"
        /\ subsets_built = 0
        /\ eval_calls = 0
        /\ combination_indices = <<>>
        /\ best_fit = <<>>

\* C5 witness: a record with some points, fewer than k, has been reported.
C5_Witness == pc = "insufficient" /\ n >= 1 /\ n < k

\* C6: when the program has ended, no instance after a failing one is left
\* unprocessed.
C6_LaterInstancesProcessed ==
    pc \in {"exit", "terminated"} => arg_i >= argc

\* C7: on n = k points sampled from an integer polynomial of degree < k,
\* lagrange_evaluate returns y_j at every x_j and the search reports n
\* inliers.
C7_Exactness ==
    /\ pc \in {"gen", "scored", "report"} => n = k
    /\ pc = "scored" =>
          /\ \A j \in 1..n :
                LagrangeEvaluate(all_points, all_points[j][1]) = all_points[j][2]
          /\ current_inlier_count = n
    /\ pc = "report" => best_inlier_count = n

\* C7 witness: the search is over on three points of a polynomial that is not
\* constant, with three inliers reported.
C7_Witness ==
    /\ pc = "report"
    /\ k = 3
    /\ n = 3
    /\ all_points[1][2] # all_points[2][2]
    /\ best_inlier_count = 3

C9_ScenarioResult ==
    (pc = "report" /\ ScenarioC # 18) => best_fit = <<3, 2>>

\* C10: convertToBase10 signals an error exactly when some character is no
\* valid digit of the base.
C10_MalformedDigit ==
    dec_pc # "call" => (dec_pc = "threw" <=> ~ValidDigits(numStr, base))

====
